---- MODULE Spec2Model ----
(***************************************************************************)
(* A model of the BCS serializer of src/src/ser.rs: the primitive writer   *)
(* (ULEB128, length prefixes, fixed-width integers), the structural        *)
(* encoder with its container-depth budget, and the map canonicalizer.     *)
(*                                                                         *)
(* Machine integers wider than the model checker's own integers (usize,    *)
(* u32) are words: sequences of bytes, least significant byte first.       *)
(***************************************************************************)
EXTENDS Integers, Sequences, FiniteSets, TLC

VARIABLES
    phase,      \* "idle" before an entry point is called, "running", "done"
    sink,       \* the caller's writer W, exclusively borrowed by the call
    scratch,    \* stack of the Vec<u8> buffers of the serialize_key/value calls in progress
    frames,     \* stack of the live Serializer / MapSerializer objects, root first
    result,     \* what the entry point returned (Ok or an Error), once phase = "done"
    limit,      \* the depth limit the call was started with
    ev,         \* the last serializer call made by the driver, with the budget it saw
    nev,        \* number of serializer calls made by the driver so far
    budget,     \* number of serializer calls the driver makes at most
    x, y,       \* two values of one static type, handed to the entry points as a whole
    rx, ry, rsize,  \* what to_bytes(x), to_bytes(y) and serialized_size(x) returned
    rxl, rsizel     \* what the _with_limit forms of the two returned for x and limit

vars == <<phase, sink, scratch, frames, result, limit, ev, nev, budget,
          x, y, rx, ry, rsize, rxl, rsizel>>

(***************************************************************************)
(* Bounds of the model.                                                    *)
(***************************************************************************)
MaxEvents == 4      \* serializer calls per top-level call, any calls
MaxMapEvents == 14  \* serializer calls per top-level call, encoding one map
MaxTreeEvents == 7  \* serializer calls per top-level call, encoding nested containers
MaxFrames == 3      \* Serializer objects alive at once
MaxLimit == 1       \* small depth limits tried besides MAX_CONTAINER_DEPTH
MaxSeqLen == 2      \* elements of a sequence value, entries of a map value

(***************************************************************************)
(* Program constants.                                                      *)
(***************************************************************************)
MAX_CONTAINER_DEPTH == 500
USIZE_BYTES == 8
U32_BYTES == 4
\* (1 << 31) - 1 as a usize
MAX_SEQUENCE_LENGTH == <<255, 255, 255, 127, 0, 0, 0, 0>>

(***************************************************************************)
(* Words.                                                                  *)
(***************************************************************************)
RECURSIVE to_le_bytes(_, _)
\* the n low bytes of the two's complement of v, least significant first
to_le_bytes(v, n) ==
    IF n = 0 THEN <<>> ELSE <<v % 256>> \o to_le_bytes(v \div 256, n - 1)

Usize(n) == to_le_bytes(n, USIZE_BYTES)
U32(n) == to_le_bytes(n, U32_BYTES)

\* a > b decided on the low 32 bits only
WordGt_low(a, b) ==
    \E i \in 1..4 : a[i] > b[i] /\ \A j \in (i + 1)..4 : a[j] = b[j]

\* a > b on two words of the same width
WordGt(a, b) ==
    \E i \in 1..Len(a) : a[i] > b[i] /\ \A j \in (i + 1)..Len(a) : a[j] = b[j]

\* `len as u32`: the narrowing cast keeps the low 32 bits
as_u32(w) == SubSeq(w, 1, U32_BYTES)

\* value >>= 7
Shr7(w) ==
    [i \in 1..Len(w) |->
        (w[i] \div 128) + (IF i < Len(w) THEN (w[i + 1] % 128) * 2 ELSE 0)]

\* value > 0x80
Gt0x80(w) == w[1] > 128 \/ \E i \in 2..Len(w) : w[i] # 0

\* value >= 0x80
Ge0x80(w) == w[1] >= 128 \/ \E i \in 2..Len(w) : w[i] # 0

RECURSIVE AddWord(_, _)
\* w + n for a small n, byte by byte, with the carry out of the top byte
AddWord(w, n) ==
    IF w = <<>> THEN [sum |-> <<>>, carry |-> n]
    ELSE LET t == w[1] + n
             r == AddWord(Tail(w), t \div 256)
         IN [sum |-> <<t % 256>> \o r.sum, carry |-> r.carry]

\* Option<usize>: None is the empty sequence, Some(w) the word w
None_usize == <<>>

\* usize::checked_add
checked_add(w, n) ==
    LET r == AddWord(w, n) IN IF r.carry # 0 THEN None_usize ELSE r.sum

(***************************************************************************)
(* Results and errors.                                                     *)
(***************************************************************************)
Ok == [kind |-> "Ok", name |-> "", len |-> <<>>]
NotSupported(what) == [kind |-> "NotSupported", name |-> what, len |-> <<>>]
ExceededMaxLen(len) == [kind |-> "ExceededMaxLen", name |-> "", len |-> len]
ExceededContainerDepthLimit(name) ==
    [kind |-> "ExceededContainerDepthLimit", name |-> name, len |-> <<>>]
MissingLen == [kind |-> "MissingLen", name |-> "", len |-> <<>>]
ExpectedMapKey == [kind |-> "ExpectedMapKey", name |-> "", len |-> <<>>]
ExpectedMapValue == [kind |-> "ExpectedMapValue", name |-> "", len |-> <<>>]
Io(what) == [kind |-> "Io", name |-> what, len |-> <<>>]
NoResult == [kind |-> "None", name |-> "", len |-> <<>>]

IsOk(r) == r.kind = "Ok"

(***************************************************************************)
(* Writers: Vec<u8> and WriteCounter.                                      *)
(***************************************************************************)
Vec_new == [kind |-> "Vec", data |-> <<>>, count |-> Usize(0)]
VecOf(bytes) == [kind |-> "Vec", data |-> bytes, count |-> Usize(0)]
WriteCounter(n) == [kind |-> "WriteCounter", data |-> <<>>, count |-> Usize(n)]

\* a counter of the writes made, not of the bytes written
WriteCounter_write_calls(w, buf) ==
    [w |-> [w EXCEPT !.count = checked_add(w.count, 1)], res |-> Ok]

\* WriteCounter::write: self.0 = self.0.checked_add(len).ok_or_else(..)?
WriteCounter_write(w, buf) ==
    LET sum == checked_add(w.count, Len(buf))
    IN IF sum = None_usize
       THEN [w |-> w, res |-> Io("WriteCounter reached max value")]
       ELSE [w |-> [w EXCEPT !.count = sum], res |-> Ok]

\* Write::write_all(buf), mapped through Error::from: nothing is written for an
\* empty buffer; a Vec appends; a WriteCounter adds the length
write_all(w, buf) ==
    IF buf = <<>> THEN [w |-> w, res |-> Ok]
    ELSE IF w.kind = "Vec" THEN [w |-> [w EXCEPT !.data = @ \o buf], res |-> Ok]
    ELSE WriteCounter_write(w, buf)

(***************************************************************************)
(* Serializer: the primitive writer.  A Serializer value s carries the     *)
(* writer it borrows (s.output), its depth budget, and, in s.res, what the *)
(* method applied to it returned.                                          *)
(***************************************************************************)
Serializer_new(output, max_remaining_depth) ==
    [output |-> output, max_remaining_depth |-> max_remaining_depth, res |-> Ok]

\* an error that also empties the writer
Fail_rollback(s, e) == [s EXCEPT !.res = e, !.output = Vec_new]

Fail(s, e) == [s EXCEPT !.res = e]

\* self.output.write_all(buf).map_err(|e| Error::from(e))?
Write(s, buf) ==
    LET r == write_all(s.output, buf)
    IN [s EXCEPT !.output = r.w, !.res = r.res]

RECURSIVE output_u32_as_uleb128(_, _)
output_u32_as_uleb128(s, value) ==
    IF Ge0x80(value)
    THEN LET byte == value[1] % 128
             s1 == Write(s, <<byte + 128>>)
         IN IF IsOk(s1.res) THEN output_u32_as_uleb128(s1, Shr7(value)) ELSE s1
    ELSE Write(s, <<value[1]>>)

output_variant_index(s, v) == output_u32_as_uleb128(s, v)

output_seq_len(s, len) ==
    IF WordGt(len, MAX_SEQUENCE_LENGTH)
    THEN Fail(s, ExceededMaxLen(len))
    ELSE output_u32_as_uleb128(s, as_u32(len))

\* the budget tested one level early
enter_named_container_early(s, name) ==
    IF s.max_remaining_depth <= 1 THEN Fail(s, ExceededContainerDepthLimit(name))
    ELSE [s EXCEPT !.max_remaining_depth = @ - 1]

enter_named_container(s, name) ==
    IF s.max_remaining_depth = 0
    THEN Fail(s, ExceededContainerDepthLimit(name))
    ELSE [s EXCEPT !.max_remaining_depth = @ - 1]

(***************************************************************************)
(* impl ser::Serializer for Serializer.  A method that ends by handing     *)
(* `self` to value.serialize is modelled up to that call.  u8 and u16      *)
(* values are integers, u32/u64/u128 values are words, signed values are   *)
(* integers.                                                               *)
(***************************************************************************)
serialize_u8(s, v) == Write(s, <<v>>)
serialize_u16(s, v) == Write(s, to_le_bytes(v, 2))
serialize_u32(s, v) == Write(s, v)
serialize_u64(s, v) == Write(s, v)
serialize_u128(s, v) == Write(s, v)

serialize_bool(s, v) == serialize_u8(s, IF v THEN 1 ELSE 0)
serialize_i8(s, v) == serialize_u8(s, v % 256)
serialize_i16(s, v) == serialize_u16(s, v % 65536)
serialize_i32(s, v) == serialize_u32(s, to_le_bytes(v, 4))
serialize_i64(s, v) == serialize_u64(s, to_le_bytes(v, 8))
serialize_i128(s, v) == serialize_u128(s, to_le_bytes(v, 16))

\* a char written as its four-byte code point
serialize_char_as_u32(s) == Write(s, <<97, 0, 0, 0>>)

serialize_f32(s) == Fail(s, NotSupported("serialize_f32"))
serialize_f64(s) == Fail(s, NotSupported("serialize_f64"))
serialize_char(s) == Fail(s, NotSupported("serialize_char"))

serialize_bytes(s, v) ==
    LET s1 == output_seq_len(s, Usize(Len(v)))
    IN IF IsOk(s1.res) THEN Write(s1, v) ELSE s1

\* v is the str's UTF-8 bytes
serialize_str(s, v) == serialize_bytes(s, v)

serialize_none(s) == serialize_u8(s, 0)

\* an option written without its tag byte
serialize_some_untagged(s) == s

\* then value.serialize(self)
serialize_some(s) == Write(s, <<1>>)

serialize_unit(s) == s

serialize_unit_struct(s, name) ==
    LET s1 == enter_named_container(s, name)
    IN IF IsOk(s1.res) THEN serialize_unit(s1) ELSE s1

serialize_unit_variant(s, name, variant_index) ==
    LET s1 == enter_named_container(s, name)
    IN IF IsOk(s1.res) THEN output_variant_index(s1, variant_index) ELSE s1

\* then value.serialize(self)
serialize_newtype_struct(s, name) == enter_named_container(s, name)

\* the index written before the budget is looked at
serialize_newtype_variant_index_first(s, name, variant_index) ==
    LET s1 == output_variant_index(s, variant_index)
    IN IF IsOk(s1.res) THEN enter_named_container(s1, name) ELSE s1

\* then value.serialize(self)
serialize_newtype_variant(s, name, variant_index) ==
    LET s1 == enter_named_container(s, name)
    IN IF IsOk(s1.res) THEN output_variant_index(s1, variant_index) ELSE s1

\* an unknown length taken as zero
serialize_seq_unsized(s, len) ==
    IF len # None_usize THEN output_seq_len(s, len) ELSE output_seq_len(s, Usize(0))

\* len is an Option<usize>
serialize_seq(s, len) ==
    IF len # None_usize THEN output_seq_len(s, len) ELSE Fail(s, MissingLen)

serialize_tuple(s) == s

\* a named tuple begun as an anonymous one
serialize_tuple_struct_unnamed(s, name) == s

serialize_tuple_struct(s, name) == enter_named_container(s, name)

serialize_tuple_variant(s, name, variant_index) ==
    LET s1 == enter_named_container(s, name)
    IN IF IsOk(s1.res) THEN output_variant_index(s1, variant_index) ELSE s1

serialize_struct(s, name) == enter_named_container(s, name)

serialize_struct_variant(s, name, variant_index) ==
    LET s1 == enter_named_container(s, name)
    IN IF IsOk(s1.res) THEN output_variant_index(s1, variant_index) ELSE s1


\* SerializeSeq/Tuple/TupleStruct/TupleVariant/Struct/StructVariant::
\* serialize_element|serialize_field: the Serializer handed to value.serialize
element_serializer(s) == Serializer_new(s.output, s.max_remaining_depth)

\* the budget the element left, handed back to the compound
element_return_spent(s, r) ==
    [s EXCEPT !.output = r.output, !.res = r.res,
              !.max_remaining_depth = r.max_remaining_depth]

\* ... and what the call returns once value.serialize returned r: the writer is
\* shared, self.max_remaining_depth is untouched
element_return(s, r) == [s EXCEPT !.output = r.output, !.res = r.res]

\* an end that writes a terminator byte
compound_end_terminated(s) == Write(s, <<0>>)

\* SerializeSeq::end and its five siblings
compound_end(s) == s

(***************************************************************************)
(* MapSerializer.                                                          *)
(***************************************************************************)
None_key == [some |-> FALSE, v |-> <<>>]
Some_key(bytes) == [some |-> TRUE, v |-> bytes]

MapSerializer_new(serializer) ==
    [serializer |-> serializer, entries |-> <<>>, next_key |-> None_key]

\* serialize_map: Ok(MapSerializer::new(self))
serialize_map(s) == MapSerializer_new(s)

\* serialize_key up to key.serialize: the error it returns at once, if any
serialize_key_check(m) == IF m.next_key.some THEN ExpectedMapValue ELSE Ok

\* the Serializer serialize_key and serialize_value hand to key/value.serialize
scratch_serializer(m) == Serializer_new(Vec_new, m.serializer.max_remaining_depth)

\* serialize_key once key.serialize returned r
serialize_key_return(m, r) ==
    IF IsOk(r.res) THEN [m EXCEPT !.next_key = Some_key(r.output.data)] ELSE m

\* a value accepted with no key pending
serialize_value_check_lenient(m) == Ok

\* serialize_value up to value.serialize: self.next_key.take()
serialize_value_check(m) == IF m.next_key.some THEN Ok ELSE ExpectedMapKey

\* the pending key looked at but left in place
take_next_key_kept(m) == m

take_next_key(m) == [m EXCEPT !.next_key = None_key]

\* serialize_value once value.serialize returned r, key being the key taken
serialize_value_return(m, key, r) ==
    IF IsOk(r.res) THEN [m EXCEPT !.entries = Append(@, <<key, r.output.data>>)] ELSE m

\* cmp comparing the first bytes only
cmp_first_byte(a, b) ==
    IF a = <<>> THEN (IF b = <<>> THEN 0 ELSE -1)
    ELSE IF b = <<>> THEN 1
    ELSE IF a[1] < b[1] THEN -1
    ELSE IF a[1] > b[1] THEN 1
    ELSE 0

RECURSIVE cmp(_, _)
\* Vec<u8>::cmp: lexicographic, -1 (Less), 0 (Equal), 1 (Greater)
cmp(a, b) ==
    IF a = <<>> THEN (IF b = <<>> THEN 0 ELSE -1)
    ELSE IF b = <<>> THEN 1
    ELSE IF a[1] < b[1] THEN -1
    ELSE IF a[1] > b[1] THEN 1
    ELSE cmp(Tail(a), Tail(b))

RECURSIVE insert_sorted(_, _)
\* e put after every entry of the sorted list whose key is not greater
insert_sorted(sorted, e) ==
    IF sorted = <<>> THEN <<e>>
    ELSE IF cmp(sorted[1][1], e[1]) = 1 THEN <<e>> \o sorted
    ELSE <<sorted[1]>> \o insert_sorted(Tail(sorted), e)

\* sort_by leaving the entries in the order presented
sort_by_skipped(entries) == entries

RECURSIVE sort_by(_)
\* entries.sort_by(|e1, e2| e1.0.cmp(&e2.0)): a stable sort
sort_by(entries) ==
    IF entries = <<>> THEN <<>>
    ELSE insert_sorted(sort_by(SubSeq(entries, 1, Len(entries) - 1)), entries[Len(entries)])

RECURSIVE dedup_by_last(_)
\* of consecutive entries with equal keys the last is kept
dedup_by_last(entries) ==
    IF Len(entries) <= 1 THEN entries
    ELSE LET rest == dedup_by_last(SubSeq(entries, 1, Len(entries) - 1))
             e == entries[Len(entries)]
         IN IF rest[Len(rest)][1] = e[1]
            THEN Append(SubSeq(rest, 1, Len(rest) - 1), e)
            ELSE Append(rest, e)

RECURSIVE dedup_by(_)
\* entries.dedup_by(|e1, e2| e1.0.eq(&e2.0)): of consecutive entries with equal
\* keys the first is kept
dedup_by(entries) ==
    IF Len(entries) <= 1 THEN entries
    ELSE LET rest == dedup_by(SubSeq(entries, 1, Len(entries) - 1))
             e == entries[Len(entries)]
         IN IF rest[Len(rest)][1] = e[1] THEN rest ELSE Append(rest, e)

RECURSIVE write_entries(_, _)
\* for (key, value) in &self.entries { write_all(key)?; write_all(value)?; }
write_entries(s, entries) ==
    IF entries = <<>> THEN s
    ELSE LET s1 == Write(s, entries[1][1])
             s2 == IF IsOk(s1.res) THEN Write(s1, entries[1][2]) ELSE s1
         IN IF IsOk(s2.res) THEN write_entries(s2, Tail(entries)) ELSE s2

\* an end that writes the entries it has before it looks for a pending key
MapSerializer_end_eager(m) ==
    LET entries == dedup_by(sort_by(m.entries))
        s1 == output_seq_len(m.serializer, Usize(Len(entries)))
        s2 == IF IsOk(s1.res) THEN write_entries(s1, entries) ELSE s1
    IN IF m.next_key.some THEN Fail(s2, ExpectedMapValue) ELSE s2

\* MapSerializer::end: the map's Serializer after the call, with what it returned
MapSerializer_end(m) ==
    IF m.next_key.some THEN Fail(m.serializer, ExpectedMapValue)
    ELSE LET entries == dedup_by(sort_by(m.entries))
             s1 == output_seq_len(m.serializer, Usize(Len(entries)))
         IN IF IsOk(s1.res) THEN write_entries(s1, entries) ELSE s1

(***************************************************************************)
(* Inputs the driver (the Serialize implementations of the values being    *)
(* encoded) hands to the serializer.                                       *)
(***************************************************************************)
Names == {"A", "B"}
VariantSamples == {<<0, 0, 0, 0>>, <<128, 0, 0, 0>>}
\* Option<usize> lengths: None, 2, MAX_SEQUENCE_LENGTH, 2^31, 2^32 + 1
LimitSamples == (0..MaxLimit) \cup {MAX_CONTAINER_DEPTH, MAX_CONTAINER_DEPTH + 1}
\* the writers a caller of serialize_into* passes

(***************************************************************************)
(* The call in progress.  frames holds the Serializer objects alive, the   *)
(* root's first; each records the call that created it and waits for       *)
(* value.serialize to return (call), and counts the named containers it    *)
(* has entered (named).  The top frame writes to the innermost scratch     *)
(* buffer, or to the sink when no serialize_key/value call is in progress. *)
(* A "Map" frame also keeps, as history, the encoded key last presented    *)
(* (gkey) and the encoded (key, value) pairs presented so far (calls).     *)
(***************************************************************************)
CompoundKinds == {"Seq", "Tuple", "TupleStruct", "TupleVariant", "Struct", "StructVariant"}

Frame(kind, depth, call, key) ==
    [kind |-> kind, max_remaining_depth |-> depth, entries |-> <<>>,
     next_key |-> None_key, call |-> call, key |-> key, named |-> 0,
     gkey |-> <<>>, calls |-> <<>>]

Pop(seq) == SubSeq(seq, 1, Len(seq) - 1)
Top == frames[Len(frames)]
CurOut == IF scratch = <<>> THEN sink ELSE scratch[Len(scratch)]
\* the writer the frame below the top one borrows, while a scratch buffer is in use
OuterOut == IF Len(scratch) <= 1 THEN sink ELSE scratch[Len(scratch) - 1]

\* `self` of the top frame
Self == Serializer_new(CurOut, Top.max_remaining_depth)

\* the MapSerializer a "Map" frame f stands for, its Serializer borrowing w
MapOf(f, w) ==
    [serializer |-> Serializer_new(w, f.max_remaining_depth),
     entries |-> f.entries, next_key |-> f.next_key]

SetOut(w) ==
    IF scratch = <<>>
    THEN sink' = w /\ UNCHANGED scratch
    ELSE scratch' = [scratch EXCEPT ![Len(scratch)] = w] /\ UNCHANGED sink

\* the methods that enter a named container
NamedCalls ==
    {"serialize_unit_struct", "serialize_newtype_struct", "serialize_unit_variant",
     "serialize_newtype_variant", "serialize_tuple_struct", "serialize_tuple_variant",
     "serialize_struct", "serialize_struct_variant"}

\* the named containers entered by the frames fs and still open
RECURSIVE OpenNamed(_)
OpenNamed(fs) == IF fs = <<>> THEN 0 ELSE fs[1].named + OpenNamed(Tail(fs))

\* the last call: its method, the static name it was given, the budget of the
\* serializer it was made on before and after, what it returned, the bytes it
\* appended to the Vec that serializer borrows, for MapSerializer::end the
\* pairs the map was presented, and the number of named containers entered
\* since the entry point was called
Event(kind, name, s1) ==
    [kind |-> kind, name |-> name, before |-> Top.max_remaining_depth,
     after |-> s1.max_remaining_depth, res |-> s1.res,
     wrote |-> SubSeq(s1.output.data, Len(CurOut.data) + 1, Len(s1.output.data)),
     calls |-> IF kind = "map_end" THEN Top.calls ELSE <<>>,
     entered |-> ev.entered + IF kind \in NamedCalls /\ IsOk(s1.res) THEN 1 ELSE 0]
NoEvent ==
    [kind |-> "none", name |-> "", before |-> 0, after |-> 0, res |-> Ok,
     wrote |-> <<>>, calls |-> <<>>, entered |-> 0]

\* an error reached the driver, which returns it (`?`) up to the entry point
Propagate(e) == phase' = "done" /\ result' = e

\* value.serialize(serializer of the top frame) returns s1.res, to the call that
\* created the frame
Return(s1) ==
    LET f == Top
        below == Pop(frames)
        parent == below[Len(below)]
    IN /\ IF IsOk(s1.res) /\ f.call # "root"
          THEN UNCHANGED <<phase, result>>
          ELSE Propagate(s1.res)
       /\ CASE f.call = "root" ->
                 /\ frames' = below
                 /\ SetOut(s1.output)
            [] f.call = "element" ->
                 LET s == element_return(Serializer_new(CurOut, parent.max_remaining_depth), s1)
                 IN /\ frames' = [below EXCEPT ![Len(below)].max_remaining_depth =
                                                    s.max_remaining_depth]
                    /\ SetOut(s.output)
            [] f.call = "key" ->
                 LET m == serialize_key_return(MapOf(parent, OuterOut), s1)
                 IN /\ frames' = [below EXCEPT ![Len(below)] =
                                     [@ EXCEPT !.next_key = m.next_key,
                                               !.gkey = s1.output.data]]
                    /\ scratch' = Pop(scratch)
                    /\ UNCHANGED sink
            [] f.call = "value" ->
                 LET m == serialize_value_return(MapOf(parent, OuterOut), f.key, s1)
                 IN /\ frames' = [below EXCEPT ![Len(below)] =
                                     [@ EXCEPT !.entries = m.entries,
                                               !.calls = IF IsOk(s1.res)
                                                         THEN Append(@, <<parent.gkey,
                                                                          s1.output.data>>)
                                                         ELSE @]]
                    /\ scratch' = Pop(scratch)
                    /\ UNCHANGED sink

\* a Serializer method that returns without handing self on
Leaf(kind, name, s1) ==
    /\ phase = "running" /\ nev < budget /\ Top.kind = "Serializer"
    /\ ev' = Event(kind, name, s1)
    /\ nev' = nev + 1
    /\ Return(s1)
    /\ UNCHANGED <<limit, budget, x, y, rx, ry, rsize, rxl, rsizel>>

\* a Serializer method that ends in value.serialize(self), or that returns self
\* as the compound serializer `becomes`; opened is the number of named
\* containers it enters
Continue(kind, name, s1, becomes, opened) ==
    /\ phase = "running" /\ nev < budget /\ Top.kind = "Serializer"
    /\ ev' = Event(kind, name, s1)
    /\ nev' = nev + 1
    /\ IF IsOk(s1.res)
       THEN /\ frames' = [frames EXCEPT ![Len(frames)] =
                            [@ EXCEPT !.kind = becomes,
                                      !.max_remaining_depth = s1.max_remaining_depth,
                                      !.named = @ + opened]]
            /\ SetOut(s1.output)
            /\ UNCHANGED <<phase, result>>
       ELSE Return(s1)
    /\ UNCHANGED <<limit, budget, x, y, rx, ry, rsize, rxl, rsizel>>

(***************************************************************************)
(* Values, and the driver: value.serialize(serializer), as serde's         *)
(* Serialize implementations of the standard and derived types make the    *)
(* calls.  A value is a record: its kind k, an integer payload n, a word   *)
(* or byte-string payload w, a static name, and its children (items).      *)
(***************************************************************************)
V(k, n, w, name, items) == [k |-> k, n |-> n, w |-> w, name |-> name, items |-> items]

\* a value of no interest, for the variables a specification does not use
Idle == V("unit", 0, <<>>, "", <<>>)

RECURSIVE Serialize(_, _)
RECURSIVE SerializeElements(_, _)
RECURSIVE SerializeEntries(_, _)

\* for each item: self.serialize_element(item)? (or serialize_field)
SerializeElements(items, s) ==
    IF items = <<>> THEN s
    ELSE LET r == Serialize(items[1], element_serializer(s))
             s1 == element_return(s, r)
         IN IF IsOk(s1.res) THEN SerializeElements(Tail(items), s1) ELSE s1

\* for each entry: map.serialize_key(k)?; map.serialize_value(v)?
SerializeEntries(entries, m) ==
    IF entries = <<>> THEN m
    ELSE IF ~IsOk(serialize_key_check(m))
    THEN [m EXCEPT !.serializer.res = serialize_key_check(m)]
    ELSE LET rk == Serialize(entries[1].items[1], scratch_serializer(m))
             m1 == serialize_key_return(m, rk)
             m2 == take_next_key(m1)
             rv == Serialize(entries[1].items[2], scratch_serializer(m2))
             m3 == serialize_value_return(m2, m1.next_key.v, rv)
         IN IF ~IsOk(rk.res) THEN [m1 EXCEPT !.serializer.res = rk.res]
            ELSE IF ~IsOk(serialize_value_check(m1))
            THEN [m1 EXCEPT !.serializer.res = serialize_value_check(m1)]
            ELSE IF ~IsOk(rv.res) THEN [m3 EXCEPT !.serializer.res = rv.res]
            ELSE SerializeEntries(Tail(entries), m3)

\* the elements or fields of a compound, after its begin call returned s1, then end
Compound(v, s1) ==
    IF ~IsOk(s1.res) THEN s1
    ELSE LET s2 == SerializeElements(v.items, s1)
         IN IF IsOk(s2.res) THEN compound_end(s2) ELSE s2

\* the inner value of a wrapper, after the wrapper's call wrote its part
Inner(v, s1) == IF IsOk(s1.res) THEN Serialize(v.items[1], s1) ELSE s1

Serialize(v, s) ==
    CASE v.k = "bool" -> serialize_bool(s, v.n = 1)
      [] v.k = "i8" -> serialize_i8(s, v.n)
      [] v.k = "i16" -> serialize_i16(s, v.n)
      [] v.k = "i32" -> serialize_i32(s, v.n)
      [] v.k = "i64" -> serialize_i64(s, v.n)
      [] v.k = "i128" -> serialize_i128(s, v.n)
      [] v.k = "u8" -> serialize_u8(s, v.n)
      [] v.k = "u16" -> serialize_u16(s, v.n)
      [] v.k = "u32" -> serialize_u32(s, v.w)
      [] v.k = "u64" -> serialize_u64(s, v.w)
      [] v.k = "u128" -> serialize_u128(s, v.w)
      [] v.k = "f32" -> serialize_f32(s)
      [] v.k = "f64" -> serialize_f64(s)
      [] v.k = "char" -> serialize_char(s)
      [] v.k = "str" -> serialize_str(s, v.w)
      [] v.k = "bytes" -> serialize_bytes(s, v.w)
      [] v.k = "none" -> serialize_none(s)
      [] v.k = "some" -> Inner(v, serialize_some(s))
      [] v.k = "unit" -> serialize_unit(s)
      [] v.k = "unit_struct" -> serialize_unit_struct(s, v.name)
      [] v.k = "unit_variant" -> serialize_unit_variant(s, v.name, v.w)
      [] v.k = "newtype_struct" -> Inner(v, serialize_newtype_struct(s, v.name))
      [] v.k = "newtype_variant" -> Inner(v, serialize_newtype_variant(s, v.name, v.w))
      [] v.k = "seq" -> Compound(v, serialize_seq(s, Usize(Len(v.items))))
      [] v.k = "tuple" -> Compound(v, serialize_tuple(s))
      [] v.k = "tuple_struct" -> Compound(v, serialize_tuple_struct(s, v.name))
      [] v.k = "tuple_variant" -> Compound(v, serialize_tuple_variant(s, v.name, v.w))
      [] v.k = "struct" -> Compound(v, serialize_struct(s, v.name))
      [] v.k = "struct_variant" -> Compound(v, serialize_struct_variant(s, v.name, v.w))
      [] v.k = "map" ->
           LET m == SerializeEntries(v.items, serialize_map(s))
           IN IF IsOk(m.serializer.res) THEN MapSerializer_end(m) ELSE m.serializer

\* the bound on the limit taken one too high
limit_check_above(l) ==
    IF l > MAX_CONTAINER_DEPTH + 1
    THEN NotSupported("limit exceeds the max allowed depth")
    ELSE Ok

(***************************************************************************)
(* The entry points, as functions of the value.  What they return is a     *)
(* record: res (Ok or the error), and on Ok the bytes (to_bytes and        *)
(* to_bytes_with_limit) or the count (serialized_size and its _with_limit  *)
(* form); the serialize_into pair returns the Serializer as left.          *)
(***************************************************************************)
limit_check(l) ==
    IF l > MAX_CONTAINER_DEPTH
    THEN NotSupported("limit exceeds the max allowed depth")
    ELSE Ok

serialize_into(write, value) ==
    Serialize(value, Serializer_new(write, MAX_CONTAINER_DEPTH))

serialize_into_with_limit(write, value, l) ==
    IF IsOk(limit_check(l))
    THEN Serialize(value, Serializer_new(write, l))
    ELSE Fail(Serializer_new(write, l), limit_check(l))

Returned(res, bytes, count) == [res |-> res, bytes |-> bytes, count |-> count]
NotReturned == Returned(NoResult, <<>>, <<>>)

\* serialize_into(&mut output, value)?; Ok(output)
OkOutput(s) == Returned(s.res, IF IsOk(s.res) THEN s.output.data ELSE <<>>, <<>>)
\* serialize_into(&mut counter, value)?; Ok(counter.0)
OkCounter(s) == Returned(s.res, <<>>, IF IsOk(s.res) THEN s.output.count ELSE <<>>)

to_bytes(value) == OkOutput(serialize_into(Vec_new, value))

to_bytes_with_limit(value, l) ==
    IF IsOk(limit_check(l))
    THEN OkOutput(serialize_into_with_limit(Vec_new, value, l))
    ELSE Returned(limit_check(l), <<>>, <<>>)

serialized_size(value) == OkCounter(serialize_into(WriteCounter(0), value))

serialized_size_with_limit(value, l) ==
    IF IsOk(limit_check(l))
    THEN OkCounter(serialize_into_with_limit(WriteCounter(0), value, l))
    ELSE Returned(limit_check(l), <<>>, <<>>)

(***************************************************************************)
(* Static types, and the values of a type.  A type is its kind k, its     *)
(* static name and its parameters (args): the element type of an option   *)
(* or a sequence, the key and value types of a map, the field types of a  *)
(* tuple or a record, the variants of an enum (the variant at position i  *)
(* has variant_index i - 1, as serde's derive assigns them).              *)
(***************************************************************************)
Ty(k, name, args) == [k |-> k, name |-> name, args |-> args]
Prim(k) == Ty(k, "", <<>>)


RECURSIVE ValuesOf(_)
RECURSIVE Product(_)
RECURSIVE Iterations(_, _)

\* the sequences of values, one of each type of args
Product(args) ==
    IF args = <<>> THEN {<<>>}
    ELSE {<<v>> \o rest : v \in ValuesOf(args[1]), rest \in Product(Tail(args))}

\* the values of a map type: the sequences of entries, in the order a map
\* iterates them, with pairwise different keys
Iterations(K, T) ==
    LET entries == {V("entry", 0, <<>>, "", <<k, v>>) : k \in ValuesOf(K), v \in ValuesOf(T)}
    IN UNION {{e \in [1..n -> entries] :
                  \A i \in 1..n, j \in 1..n : i < j => e[i].items[1] # e[j].items[1]} :
              n \in 0..MaxSeqLen}

ValuesOf(T) ==
    LET ints == CASE T.k = "bool" -> {0, 1}
                  [] T.k = "u8" -> {0, 1, 255}
                  [] T.k = "u16" -> {1, 256, 65535}
                  [] T.k = "i8" -> {-128, -1, 1}
                  [] T.k = "i16" -> {-2, 254, 255}
                  [] T.k \in {"i32", "i64", "i128"} -> {-1, 255, 65536}
        words == CASE T.k = "u32" -> {<<1, 0, 0, 0>>, <<0, 0, 0, 1>>, <<255, 255, 255, 255>>}
                   [] T.k = "u64" -> {<<1, 0, 0, 0, 0, 0, 0, 0>>, <<0, 0, 0, 0, 1, 0, 0, 0>>}
                   [] T.k = "u128" -> {[i \in 1..16 |-> IF i = 1 THEN 1 ELSE 0],
                                       [i \in 1..16 |-> IF i = 16 THEN 128 ELSE 0]}
                   [] T.k \in {"str", "bytes"} -> {<<>>, <<1>>, <<1, 0>>}
    IN
    CASE T.k \in {"bool", "i8", "i16", "i32", "i64", "i128", "u8", "u16"} ->
           {V(T.k, n, <<>>, "", <<>>) : n \in ints}
      [] T.k \in {"u32", "u64", "u128", "str", "bytes"} ->
           {V(T.k, 0, w, "", <<>>) : w \in words}
      [] T.k \in {"f32", "f64", "char"} -> {V(T.k, 0, <<>>, "", <<>>)}
      [] T.k = "unit" -> {V("unit", 0, <<>>, "", <<>>)}
      [] T.k = "option" ->
           {V("none", 0, <<>>, "", <<>>)}
               \cup {V("some", 0, <<>>, "", <<v>>) : v \in ValuesOf(T.args[1])}
      [] T.k \in {"unit_struct", "newtype_struct", "tuple", "tuple_struct", "struct"} ->
           {V(T.k, 0, <<>>, T.name, items) : items \in Product(T.args)}
      [] T.k = "seq" ->
           UNION {{V("seq", 0, <<>>, "", items) : items \in [1..n -> ValuesOf(T.args[1])]} :
                  n \in 0..MaxSeqLen}
      [] T.k = "map" ->
           {V("map", 0, <<>>, "", items) : items \in Iterations(T.args[1], T.args[2])}
      [] T.k = "enum" ->
           UNION {{V(T.args[i].k, 0, U32(i - 1), T.name, items) :
                      items \in Product(T.args[i].args)} : i \in 1..Len(T.args)}

Types ==
    {Prim(k) : k \in {"bool", "i8", "i16", "i32", "i64", "i128", "u8", "u16", "u32", "u64",
                      "u128", "f32", "f64", "char", "str", "bytes", "unit"}}
    \cup {Ty("option", "", <<Ty("option", "", <<Prim("bool")>>)>>),
          Ty("unit_struct", "A", <<>>),
          Ty("newtype_struct", "A", <<Prim("i16")>>),
          Ty("tuple", "", <<Prim("bytes"), Prim("str")>>),
          Ty("tuple", "", <<Ty("option", "", <<Prim("u8")>>), Prim("u8")>>),
          Ty("tuple_struct", "B", <<Prim("u8"), Prim("bool")>>),
          Ty("struct", "A", <<Prim("u16"), Ty("newtype_struct", "B", <<Prim("i8")>>),
                              Ty("unit_struct", "B", <<>>), Prim("unit")>>),
          Ty("enum", "B", <<Ty("unit_variant", "", <<>>),
                            Ty("newtype_variant", "", <<Prim("u8")>>),
                            Ty("tuple_variant", "", <<Prim("u8"), Prim("bool")>>),
                            Ty("struct_variant", "", <<Prim("bool")>>),
                            Ty("unit_variant", "", <<>>)>>),
          Ty("seq", "", <<Prim("u8")>>),
          Ty("seq", "", <<Prim("unit")>>),
          Ty("seq", "", <<Ty("option", "", <<Prim("bool")>>)>>),
          Ty("seq", "", <<Prim("f32")>>),
          Ty("map", "", <<Prim("bytes"), Prim("bool")>>),
          Ty("map", "", <<Ty("option", "", <<Prim("bool")>>), Prim("unit")>>),
          Ty("map", "", <<Prim("u8"), Prim("char")>>),
          Ty("tuple", "", <<Ty("map", "", <<Prim("bool"), Prim("bool")>>), Prim("bool")>>),
          Ty("newtype_struct", "A", <<Ty("newtype_struct", "B", <<Prim("bool")>>)>>)}

(***************************************************************************)
(* The entry points, as steps of a call: up to the first call that         *)
(* value.serialize makes on the root Serializer.                           *)
(***************************************************************************)
InitCall(b) ==
    /\ phase = "idle"
    /\ sink = Vec_new
    /\ scratch = <<>>
    /\ frames = <<>>
    /\ result = NoResult
    /\ limit = 0
    /\ ev = NoEvent
    /\ nev = 0
    /\ budget = b
    /\ rx = NotReturned /\ ry = NotReturned /\ rsize = NotReturned
    /\ rxl = NotReturned /\ rsizel = NotReturned

\* the driver makes the calls itself: no value is handed to an entry point
Init == InitCall(MaxEvents) /\ x = Idle /\ y = Idle

\* let serializer = Serializer::new(write, l); value.serialize(serializer)
Start(write, l) ==
    /\ sink' = write
    /\ limit' = l
    /\ frames' = <<Frame("Serializer", Serializer_new(write, l).max_remaining_depth,
                         "root", <<>>)>>
    /\ phase' = "running"
    /\ UNCHANGED <<result, scratch, ev, nev, budget, x, y, rx, ry, rsize, rxl, rsizel>>

\* return Err(Error::NotSupported(..)), before the writer is touched
Refuse(write, l) ==
    /\ Propagate(limit_check(l))
    /\ sink' = write
    /\ limit' = l
    /\ UNCHANGED <<frames, scratch, ev, nev, budget, x, y, rx, ry, rsize, rxl, rsizel>>

StartWithLimit(write, l) ==
    IF IsOk(limit_check(l)) THEN Start(write, l) ELSE Refuse(write, l)

Do_to_bytes == phase = "idle" /\ Start(Vec_new, MAX_CONTAINER_DEPTH)

Do_to_bytes_with_limit ==
    phase = "idle" /\ \E l \in LimitSamples : StartWithLimit(Vec_new, l)

Do_serialize_into ==
    phase = "idle" /\ \E w \in {Vec_new, VecOf(<<170>>)} : Start(w, MAX_CONTAINER_DEPTH)

Do_serialize_into_with_limit ==
    phase = "idle" /\ \E w \in {Vec_new, VecOf(<<170>>)}, l \in LimitSamples :
                         StartWithLimit(w, l)

Do_serialized_size == phase = "idle" /\ Start(WriteCounter(0), MAX_CONTAINER_DEPTH)

Do_serialized_size_with_limit ==
    phase = "idle" /\ \E l \in LimitSamples : StartWithLimit(WriteCounter(0), l)

(***************************************************************************)
(* The driver's calls on the Serializer of the top frame.                  *)
(***************************************************************************)
Do_serialize_bool == \E v \in BOOLEAN : Leaf("serialize_bool", "", serialize_bool(Self, v))
Do_serialize_i8 == \E v \in {-2} : Leaf("serialize_i8", "", serialize_i8(Self, v))
Do_serialize_i16 == \E v \in {-2} : Leaf("serialize_i16", "", serialize_i16(Self, v))
Do_serialize_i32 == \E v \in {-2} : Leaf("serialize_i32", "", serialize_i32(Self, v))
Do_serialize_i64 == \E v \in {-2} : Leaf("serialize_i64", "", serialize_i64(Self, v))
Do_serialize_i128 ==
    \E v \in {-2} : Leaf("serialize_i128", "", serialize_i128(Self, v))
Do_serialize_u8 == \E v \in {1, 2} : Leaf("serialize_u8", "", serialize_u8(Self, v))
Do_serialize_u16 == \E v \in {258} : Leaf("serialize_u16", "", serialize_u16(Self, v))
Do_serialize_u32 ==
    \E v \in {<<255, 255, 255, 255>>} : Leaf("serialize_u32", "", serialize_u32(Self, v))
Do_serialize_u64 ==
    \E v \in {<<1, 0, 0, 0, 0, 0, 0, 0>>} : Leaf("serialize_u64", "", serialize_u64(Self, v))
Do_serialize_u128 ==
    \E v \in {[i \in 1..16 |-> IF i = 1 THEN 1 ELSE 0]} :
        Leaf("serialize_u128", "", serialize_u128(Self, v))
Do_serialize_f32 == Leaf("serialize_f32", "", serialize_f32(Self))
Do_serialize_f64 == Leaf("serialize_f64", "", serialize_f64(Self))
Do_serialize_char == Leaf("serialize_char", "", serialize_char(Self))
Do_serialize_str == \E v \in {<<>>, <<1, 2>>} : Leaf("serialize_str", "", serialize_str(Self, v))
Do_serialize_bytes ==
    \E v \in {<<>>, <<1, 2>>} : Leaf("serialize_bytes", "", serialize_bytes(Self, v))
Do_serialize_none == Leaf("serialize_none", "", serialize_none(Self))
Do_serialize_some == Continue("serialize_some", "", serialize_some(Self), "Serializer", 0)
Do_serialize_unit == Leaf("serialize_unit", "", serialize_unit(Self))
Do_serialize_unit_struct ==
    \E name \in Names :
        Leaf("serialize_unit_struct", name, serialize_unit_struct(Self, name))
Do_serialize_unit_variant ==
    \E name \in Names, i \in VariantSamples :
        Leaf("serialize_unit_variant", name, serialize_unit_variant(Self, name, i))
Do_serialize_newtype_struct ==
    \E name \in Names :
        Continue("serialize_newtype_struct", name, serialize_newtype_struct(Self, name),
                 "Serializer", 1)
Do_serialize_newtype_variant ==
    \E name \in Names, i \in VariantSamples :
        Continue("serialize_newtype_variant", name,
                 serialize_newtype_variant(Self, name, i), "Serializer", 1)
Do_serialize_seq ==
    \E len \in {None_usize, Usize(2), MAX_SEQUENCE_LENGTH,
                <<0, 0, 0, 128, 0, 0, 0, 0>>, <<1, 0, 0, 0, 1, 0, 0, 0>>} :
        Continue("serialize_seq", "", serialize_seq(Self, len), "Seq", 0)
Do_serialize_tuple == Continue("serialize_tuple", "", serialize_tuple(Self), "Tuple", 0)
Do_serialize_tuple_struct ==
    \E name \in Names :
        Continue("serialize_tuple_struct", name, serialize_tuple_struct(Self, name),
                 "TupleStruct", 1)
Do_serialize_tuple_variant ==
    \E name \in Names, i \in VariantSamples :
        Continue("serialize_tuple_variant", name, serialize_tuple_variant(Self, name, i),
                 "TupleVariant", 1)
Do_serialize_map ==
    Continue("serialize_map", "", serialize_map(Self).serializer, "Map", 0)
Do_serialize_struct ==
    \E name \in Names :
        Continue("serialize_struct", name, serialize_struct(Self, name), "Struct", 1)
Do_serialize_struct_variant ==
    \E name \in Names, i \in VariantSamples :
        Continue("serialize_struct_variant", name,
                 serialize_struct_variant(Self, name, i), "StructVariant", 1)

(***************************************************************************)
(* The driver's calls on a compound serializer.                            *)
(***************************************************************************)
\* serialize_element / serialize_field up to value.serialize
Element(kind, kinds) ==
    /\ phase = "running" /\ nev < budget /\ Top.kind \in kinds
    /\ Len(frames) < MaxFrames
    /\ frames' = Append(frames, Frame("Serializer",
                                      element_serializer(Self).max_remaining_depth,
                                      "element", <<>>))
    /\ ev' = Event(kind, "", Self)
    /\ nev' = nev + 1
    /\ UNCHANGED <<phase, result, sink, scratch, limit, budget, x, y, rx, ry, rsize, rxl, rsizel>>

Do_serialize_element == Element("serialize_element", {"Seq", "Tuple"})
Do_serialize_field ==
    Element("serialize_field", {"TupleStruct", "TupleVariant", "Struct", "StructVariant"})

Do_end ==
    /\ phase = "running" /\ nev < budget /\ Top.kind \in CompoundKinds
    /\ ev' = Event("end", "", compound_end(Self))
    /\ nev' = nev + 1
    /\ Return(compound_end(Self))
    /\ UNCHANGED <<limit, budget, x, y, rx, ry, rsize, rxl, rsizel>>

(***************************************************************************)
(* The driver's calls on a MapSerializer.                                  *)
(***************************************************************************)
Do_serialize_key ==
    /\ phase = "running" /\ nev < budget /\ Top.kind = "Map"
    /\ Len(frames) < MaxFrames
    /\ LET m == MapOf(Top, CurOut)
           chk == serialize_key_check(m)
       IN /\ ev' = Event("serialize_key", "", Fail(Self, chk))
          /\ IF IsOk(chk)
             THEN /\ frames' = Append(frames, Frame("Serializer",
                                   scratch_serializer(m).max_remaining_depth, "key", <<>>))
                  /\ scratch' = Append(scratch, scratch_serializer(m).output)
                  /\ UNCHANGED <<phase, result>>
             ELSE /\ Propagate(chk)
                  /\ UNCHANGED <<frames, scratch>>
    /\ nev' = nev + 1
    /\ UNCHANGED <<sink, limit, budget, x, y, rx, ry, rsize, rxl, rsizel>>

Do_serialize_value ==
    /\ phase = "running" /\ nev < budget /\ Top.kind = "Map"
    /\ Len(frames) < MaxFrames
    /\ LET m == MapOf(Top, CurOut)
           chk == serialize_value_check(m)
           m1 == take_next_key(m)
       IN /\ ev' = Event("serialize_value", "", Fail(Self, chk))
          /\ IF IsOk(chk)
             THEN /\ frames' = Append([frames EXCEPT ![Len(frames)].next_key = m1.next_key],
                                      Frame("Serializer",
                                            scratch_serializer(m1).max_remaining_depth,
                                            "value", m.next_key.v))
                  /\ scratch' = Append(scratch, scratch_serializer(m1).output)
                  /\ UNCHANGED <<phase, result>>
             ELSE /\ Propagate(chk)
                  /\ UNCHANGED <<frames, scratch>>
    /\ nev' = nev + 1
    /\ UNCHANGED <<sink, limit, budget, x, y, rx, ry, rsize, rxl, rsizel>>

Do_map_end ==
    /\ phase = "running" /\ nev < budget /\ Top.kind = "Map"
    /\ LET s1 == MapSerializer_end(MapOf(Top, CurOut))
       IN /\ ev' = Event("map_end", "", s1)
          /\ Return(s1)
    /\ nev' = nev + 1
    /\ UNCHANGED <<limit, budget, x, y, rx, ry, rsize, rxl, rsizel>>

(***************************************************************************)
(* Spec: a driver that makes any calls, up to MaxEvents of them.           *)
(***************************************************************************)
Next ==
    \/ Do_to_bytes
    \/ Do_to_bytes_with_limit
    \/ Do_serialize_into
    \/ Do_serialize_into_with_limit
    \/ Do_serialized_size
    \/ Do_serialized_size_with_limit
    \/ Do_serialize_bool
    \/ Do_serialize_i8
    \/ Do_serialize_i16
    \/ Do_serialize_i32
    \/ Do_serialize_i64
    \/ Do_serialize_i128
    \/ Do_serialize_u8
    \/ Do_serialize_u16
    \/ Do_serialize_u32
    \/ Do_serialize_u64
    \/ Do_serialize_u128
    \/ Do_serialize_f32
    \/ Do_serialize_f64
    \/ Do_serialize_char
    \/ Do_serialize_str
    \/ Do_serialize_bytes
    \/ Do_serialize_none
    \/ Do_serialize_some
    \/ Do_serialize_unit
    \/ Do_serialize_unit_struct
    \/ Do_serialize_unit_variant
    \/ Do_serialize_newtype_struct
    \/ Do_serialize_newtype_variant
    \/ Do_serialize_seq
    \/ Do_serialize_tuple
    \/ Do_serialize_tuple_struct
    \/ Do_serialize_tuple_variant
    \/ Do_serialize_map
    \/ Do_serialize_struct
    \/ Do_serialize_struct_variant
    \/ Do_serialize_element
    \/ Do_serialize_field
    \/ Do_end
    \/ Do_serialize_key
    \/ Do_serialize_value
    \/ Do_map_end

Spec == Init /\ [][Next]_vars

(***************************************************************************)
(* SpecMap: encoding one map of u8 and byte-string keys and values into a  *)
(* fresh Vec, the driver making up to MaxMapEvents calls in any order.     *)
(***************************************************************************)
NextMap ==
    \/ Do_to_bytes
    \/ Do_serialize_map
    \/ Do_serialize_key
    \/ Do_serialize_value
    \/ Do_map_end
    \/ Do_serialize_u8
    \/ Do_serialize_bytes
    \/ Do_serialize_f32

SpecMap ==
    InitCall(MaxMapEvents) /\ x = Idle /\ y = Idle /\ [][NextMap]_vars

(***************************************************************************)
(* SpecChain: encoding, with a limit, a chain of named single-field        *)
(* wrappers around a u8; the chain may be longer than MAX_CONTAINER_DEPTH. *)
(***************************************************************************)
NextChain ==
    \/ Do_to_bytes_with_limit
    \/ Do_serialize_newtype_struct
    \/ Do_serialize_u8

SpecChain ==
    InitCall(MAX_CONTAINER_DEPTH + 2) /\ x = Idle /\ y = Idle /\ [][NextChain]_vars

(***************************************************************************)
(* SpecTree: encoding, with a limit, nested tuples, records and sequences  *)
(* of named wrappers, named units and u8.                                  *)
(***************************************************************************)
NextTree ==
    \/ Do_to_bytes_with_limit
    \/ Do_serialize_tuple
    \/ Do_serialize_struct
    \/ Do_serialize_element
    \/ Do_serialize_field
    \/ Do_end
    \/ Do_serialize_newtype_struct
    \/ Do_serialize_unit_struct
    \/ Do_serialize_u8

SpecTree ==
    InitCall(MaxTreeEvents) /\ x = Idle /\ y = Idle /\ [][NextTree]_vars

(***************************************************************************)
(* The length and ULEB128 writers applied to numbers: x is a usize, rx is *)
(* the Serializer after output_seq_len(x) on a Vec that held one byte,    *)
(* rsize the same after serialize_seq(Some(x)), and ry the Serializer     *)
(* after output_u32_as_uleb128(x as u32) on an empty Vec.                 *)
(***************************************************************************)
UsizeSamples ==
    {lo \o hi : lo \in [1..U32_BYTES -> {0, 1, 64, 127, 128, 255}],
                hi \in {<<0, 0, 0, 0>>, <<1, 0, 0, 0>>, <<255, 255, 255, 255>>}}

Call_output_seq_len ==
    /\ rx = NotReturned
    /\ rx' = output_seq_len(Serializer_new(VecOf(<<170>>), MAX_CONTAINER_DEPTH), x)
    /\ UNCHANGED <<phase, sink, scratch, frames, result, limit, ev, nev, budget, x, y,
                   ry, rsize, rxl, rsizel>>

Call_serialize_seq ==
    /\ rsize = NotReturned
    /\ rsize' = serialize_seq(Serializer_new(VecOf(<<170>>), MAX_CONTAINER_DEPTH), x)
    /\ UNCHANGED <<phase, sink, scratch, frames, result, limit, ev, nev, budget, x, y,
                   rx, ry, rxl, rsizel>>

Call_output_u32_as_uleb128 ==
    /\ ry = NotReturned
    /\ ry' = output_u32_as_uleb128(Serializer_new(Vec_new, MAX_CONTAINER_DEPTH), as_u32(x))
    /\ UNCHANGED <<phase, sink, scratch, frames, result, limit, ev, nev, budget, x, y,
                   rx, rsize, rxl, rsizel>>

NextPrim ==
    \/ Call_output_seq_len
    \/ Call_serialize_seq
    \/ Call_output_u32_as_uleb128

SpecPrim ==
    InitCall(0) /\ x \in UsizeSamples /\ y = Idle /\ [][NextPrim]_vars

(***************************************************************************)
(* The entry points applied to values: x and y are two values of one      *)
(* static type; rx, ry and rsize are what to_bytes(x), to_bytes(y) and    *)
(* serialized_size(x) returned, rxl and rsizel what the _with_limit forms *)
(* returned for x, called one after the other.                            *)
(***************************************************************************)
Run_to_bytes_x ==
    /\ rx = NotReturned
    /\ rx' = to_bytes(x)
    /\ UNCHANGED <<phase, sink, scratch, frames, result, limit, ev, nev, budget, x, y,
                   ry, rsize, rxl, rsizel>>

Run_to_bytes_y ==
    /\ rx # NotReturned /\ ry = NotReturned
    /\ ry' = to_bytes(y)
    /\ UNCHANGED <<phase, sink, scratch, frames, result, limit, ev, nev, budget, x, y,
                   rx, rsize, rxl, rsizel>>

Run_serialized_size_x ==
    /\ ry # NotReturned /\ rsize = NotReturned
    /\ rsize' = serialized_size(x)
    /\ UNCHANGED <<phase, sink, scratch, frames, result, limit, ev, nev, budget, x, y,
                   rx, ry, rxl, rsizel>>

Run_to_bytes_with_limit_x ==
    /\ rsize # NotReturned /\ rxl = NotReturned
    /\ \E l \in LimitSamples :
          /\ limit' = l
          /\ rxl' = to_bytes_with_limit(x, l)
    /\ UNCHANGED <<phase, sink, scratch, frames, result, ev, nev, budget, x, y,
                   rx, ry, rsize, rsizel>>

Run_serialized_size_with_limit_x ==
    /\ rxl # NotReturned /\ rsizel = NotReturned
    /\ rsizel' = serialized_size_with_limit(x, limit)
    /\ UNCHANGED <<phase, sink, scratch, frames, result, limit, ev, nev, budget, x, y,
                   rx, ry, rsize, rxl>>

NextValue ==
    \/ Run_to_bytes_x
    \/ Run_to_bytes_y
    \/ Run_serialized_size_x
    \/ Run_to_bytes_with_limit_x
    \/ Run_serialized_size_with_limit_x

SpecValue ==
    /\ InitCall(0)
    /\ \E T \in Types : x \in ValuesOf(T) /\ y \in ValuesOf(T)
    /\ [][NextValue]_vars

(***************************************************************************)
(* Reference definitions the properties are stated with.                   *)
(***************************************************************************)
Min(a, b) == IF a < b THEN a ELSE b

\* a strictly before b in lexicographic byte order
LexLess(a, b) ==
    \/ Len(a) < Len(b) /\ a = SubSeq(b, 1, Len(a))
    \/ \E i \in 1..Min(Len(a), Len(b)) :
          SubSeq(a, 1, i - 1) = SubSeq(b, 1, i - 1) /\ a[i] < b[i]

RECURSIVE Uleb(_)
\* ULEB128 of a natural number
Uleb(n) == IF n < 128 THEN <<n>> ELSE <<(n % 128) + 128>> \o Uleb(n \div 128)

RECURSIVE FlattenPairs(_)
\* key1 || value1 || key2 || value2 ...
FlattenPairs(p) ==
    IF p = <<>> THEN <<>> ELSE p[1][1] \o p[1][2] \o FlattenPairs(Tail(p))

Range(f) == {f[i] : i \in DOMAIN f}
KeysOf(calls) == {c[1] : c \in Range(calls)}

(***************************************************************************)
(* C1: when end succeeds on a map that was presented the encoded pairs     *)
(* ev.calls, the bytes it writes to the parent writer are ULEB128(c), c    *)
(* the number of distinct encoded keys presented, followed by c pairs      *)
(* key || value taken from the pairs presented, in strictly ascending      *)
(* lexicographic order of their keys (so each distinct key appears once).  *)
(***************************************************************************)
C1_CanonicalMap ==
    (ev.kind = "map_end" /\ IsOk(ev.res)) =>
        LET c == Cardinality(KeysOf(ev.calls))
        IN \E p \in [1..c -> Range(ev.calls)] :
              /\ \A i \in 1..(c - 1) : LexLess(p[i][1], p[i + 1][1])
              /\ ev.wrote = Uleb(c) \o FlattenPairs(p)

\* three pairs presented, two of them with the same key, the first two out of order
C1_Witness ==
    /\ ev.kind = "map_end" /\ IsOk(ev.res)
    /\ Len(ev.calls) = 3
    /\ Cardinality(KeysOf(ev.calls)) = 2
    /\ LexLess(ev.calls[2][1], ev.calls[1][1])

(***************************************************************************)
(* C2: a map that was presented pairs with pairwise distinct encoded keys  *)
(* would write the same bytes at end had the pairs been presented in any   *)
(* other order.                                                            *)
(***************************************************************************)
AwaitKey == phase = "running" /\ Top.kind = "Map" /\ ~Top.next_key.some

C2_OrderIndependent ==
    (AwaitKey /\ Cardinality(KeysOf(Top.calls)) = Len(Top.calls)) =>
        \A q \in Permutations(1..Len(Top.calls)) :
            LET m == MapOf(Top, CurOut)
                permuted == [m EXCEPT !.entries = [i \in 1..Len(Top.calls) |->
                                                      Top.calls[q[i]]]]
            IN MapSerializer_end(permuted) = MapSerializer_end(m)

\* three pairs with distinct keys, one a prefix of another, presented out of order
C2_Witness ==
    /\ AwaitKey
    /\ Len(Top.calls) = 3
    /\ Cardinality(KeysOf(Top.calls)) = 3
    /\ LexLess(Top.calls[3][1], Top.calls[1][1])
    /\ \E i, j \in 1..3 : Len(Top.calls[i][1]) < Len(Top.calls[j][1])
                          /\ Top.calls[i][1] = SubSeq(Top.calls[j][1], 1, Len(Top.calls[i][1]))

(***************************************************************************)
(* C3: for two values x, y of one static type that both encode, the       *)
(* encodings are equal exactly when the values are semantically equal     *)
(* (structurally, and for maps as sets of entries, whatever the order the *)
(* map iterates them in); so the same value always gives the same bytes.  *)
(***************************************************************************)
RECURSIVE SemEq(_, _)
SemEq(a, b) ==
    /\ a.k = b.k /\ a.n = b.n /\ a.w = b.w /\ a.name = b.name
    /\ Len(a.items) = Len(b.items)
    /\ IF a.k = "map"
       THEN \A i \in 1..Len(a.items) : \E j \in 1..Len(b.items) :
               SemEq(a.items[i], b.items[j])
       ELSE \A i \in 1..Len(a.items) : SemEq(a.items[i], b.items[i])

BothEncoded == IsOk(rx.res) /\ IsOk(ry.res)

C3_Injective == BothEncoded => (rx.bytes = ry.bytes <=> SemEq(x, y))

\* two iterations of one map of two entries
C3_Witness ==
    /\ BothEncoded /\ x.k = "map" /\ Len(x.items) = 2
    /\ x # y /\ SemEq(x, y) /\ rx.bytes = ry.bytes

(***************************************************************************)
(* C4: with a limit L of at most MAX_CONTAINER_DEPTH, a chain of k named  *)
(* single-field wrappers around a u8 encodes exactly when k <= L: the     *)
(* call returns Ok only after the u8 and at most L wrappers, and returns  *)
(* an error only from wrapper number L + 1, which found the budget at     *)
(* zero; the error is ExceededContainerDepthLimit with that wrapper's     *)
(* name.                                                                   *)
(***************************************************************************)
C4_ChainDepth ==
    (phase = "done" /\ limit <= MAX_CONTAINER_DEPTH) =>
        IF IsOk(result)
        THEN ev.kind = "serialize_u8" /\ nev - 1 <= limit
        ELSE /\ ev.kind = "serialize_newtype_struct"
             /\ nev = limit + 1
             /\ ev.before = 0
             /\ result = ExceededContainerDepthLimit(ev.name)

C4_Witness ==
    /\ phase = "done" /\ limit = MAX_CONTAINER_DEPTH /\ nev = MAX_CONTAINER_DEPTH + 1
    /\ result = ExceededContainerDepthLimit("B")

(***************************************************************************)
(* C5: while a call started with limit L runs, the budget of every live   *)
(* serializer, the active one included, is L minus the number of named    *)
(* containers open from the root down to it, so that number is at most L. *)
(* A call that enters a named container and succeeds leaves its           *)
(* serializer's budget one lower; every other call leaves it as it was.   *)
(***************************************************************************)
C5_Budget ==
    /\ phase = "running" =>
          /\ \A i \in 1..Len(frames) :
                frames[i].max_remaining_depth = limit - OpenNamed(SubSeq(frames, 1, i))
          /\ OpenNamed(frames) <= limit
    /\ (ev.kind \in NamedCalls /\ IsOk(ev.res)) => ev.after = ev.before - 1
    /\ ev.kind \notin NamedCalls => ev.after = ev.before

\* a record open under limit 1, and a call on the serializer of its field
C5_Witness ==
    /\ phase = "running" /\ limit = 1 /\ Len(frames) = 2
    /\ frames[1].kind = "Struct" /\ OpenNamed(frames) = 1
    /\ Top.max_remaining_depth = 0 /\ ev.kind = "serialize_some"

(***************************************************************************)
(* C6: the budget is per branch.  serialize_element and serialize_field   *)
(* give the element the budget of the compound and leave the compound as  *)
(* it was; a compound's budget never changes while it is open, so every   *)
(* sibling gets the budget the first one got.  A call that enters a named *)
(* container succeeds exactly when fewer than limit named containers are  *)
(* open on its path, however many were entered and left before, and no    *)
(* other call fails for depth.                                             *)
(***************************************************************************)
C6_PerBranch ==
    [][nev' = nev + 1 =>
          /\ ev'.kind \in {"serialize_element", "serialize_field"} =>
                /\ Top'.max_remaining_depth = Top.max_remaining_depth
                /\ frames'[Len(frames)] = Top
          /\ \A i \in 1..Min(Len(frames), Len(frames')) :
                (frames[i].kind \in CompoundKinds /\ frames'[i].kind \in CompoundKinds) =>
                    frames'[i].max_remaining_depth = frames[i].max_remaining_depth
          /\ ev'.kind \in NamedCalls => (IsOk(ev'.res) <=> OpenNamed(frames) < limit)
          /\ ev'.kind \notin NamedCalls => ev'.res.kind # "ExceededContainerDepthLimit"
      ]_vars

\* under limit 1, back in a tuple after two of its elements each entered a
\* named container
C6_Witness ==
    /\ phase = "running" /\ limit = 1 /\ Top.kind = "Tuple"
    /\ ev.kind = "serialize_unit_struct" /\ IsOk(ev.res) /\ ev.entered = 2
    /\ Top.max_remaining_depth = 1

(***************************************************************************)
(* C7: a MapSerializer awaits a key (next_key is None) or a value         *)
(* (next_key is Some).  serialize_map leaves it awaiting a key, with no   *)
(* entries.  serialize_key fails with ExpectedMapValue when a value is    *)
(* awaited and is accepted otherwise; serialize_value fails with          *)
(* ExpectedMapKey when a key is awaited and is accepted otherwise; end    *)
(* fails with ExpectedMapValue when a value is awaited and with neither   *)
(* of the two errors otherwise.  When the key handed to serialize_key has *)
(* encoded, the map awaits a value, its entries as they were; when the    *)
(* value handed to serialize_value has encoded, the map awaits a key      *)
(* again and has exactly one entry more.                                   *)
(***************************************************************************)
AwaitValue == Top.kind = "Map" /\ Top.next_key.some

C7_MapStates ==
    [][nev' = nev + 1 =>
          /\ ev'.kind = "serialize_map" =>
                Top'.kind = "Map" /\ ~Top'.next_key.some /\ Top'.entries = <<>>
          /\ ev'.kind = "serialize_key" =>
                ev'.res = IF AwaitValue THEN ExpectedMapValue ELSE Ok
          /\ ev'.kind = "serialize_value" =>
                ev'.res = IF AwaitValue THEN Ok ELSE ExpectedMapKey
          /\ ev'.kind = "map_end" =>
                IF AwaitValue THEN ev'.res = ExpectedMapValue
                ELSE ev'.res.kind \notin {"ExpectedMapValue", "ExpectedMapKey"}
          /\ (Len(frames') < Len(frames) /\ phase' = "running" /\ Top.call = "key") =>
                /\ Top'.next_key.some
                /\ Top'.entries = frames[Len(frames) - 1].entries
          /\ (Len(frames') < Len(frames) /\ phase' = "running" /\ Top.call = "value") =>
                /\ ~Top'.next_key.some
                /\ Len(Top'.entries) = Len(frames[Len(frames) - 1].entries) + 1
                /\ SubSeq(Top'.entries, 1, Len(Top'.entries) - 1)
                       = frames[Len(frames) - 1].entries
      ]_vars

\* a map with one entry and a key pending refuses a second key
C7_Witness ==
    /\ phase = "done" /\ ev.kind = "serialize_key" /\ result = ExpectedMapValue
    /\ AwaitValue /\ Len(Top.entries) = 1

(***************************************************************************)
(* C8: output_seq_len(len), and serialize_seq(Some(len)) with it, writes  *)
(* a prefix only for len <= 2^31 - 1.  For a greater len it returns       *)
(* ExceededMaxLen(len) and the Vec is as it was; for an accepted len the  *)
(* bytes appended, read as 7-bit groups, give back all 64 bits of len.    *)
(***************************************************************************)
\* 2^k for the powers that fit a byte
Pow2(k) == CASE k = 0 -> 1 [] k = 1 -> 2 [] k = 2 -> 4 [] k = 3 -> 8
             [] k = 4 -> 16 [] k = 5 -> 32 [] k = 6 -> 64 [] k = 7 -> 128

\* bit j of a word (bytes, least significant first); 0 above its width
WordBit(w, j) ==
    IF j \div 8 < Len(w) THEN (w[(j \div 8) + 1] \div Pow2(j % 8)) % 2 ELSE 0

\* bit j of the number whose 7-bit groups are the low bits of the bytes of out
GroupBit(out, j) ==
    IF j \div 7 < Len(out) THEN (out[(j \div 7) + 1] \div Pow2(j % 7)) % 2 ELSE 0

\* len > 2^31 - 1, on the bytes of a usize
Above31Bits(w) == w[4] >= 128 \/ \E i \in 5..Len(w) : w[i] # 0

LenPrefix(r) ==
    IF Above31Bits(x)
    THEN r.res = ExceededMaxLen(x) /\ r.output = VecOf(<<170>>)
    ELSE /\ IsOk(r.res)
         /\ r.output.data[1] = 170
         /\ \A j \in 0..63 : GroupBit(Tail(r.output.data), j) = WordBit(x, j)

C8_LengthPrefix ==
    /\ rx # NotReturned => LenPrefix(rx)
    /\ rsize # NotReturned => LenPrefix(rsize)

\* 2^32 + 1, whose low 32 bits are an acceptable length
C8_Witness ==
    /\ x = <<1, 0, 0, 0, 1, 0, 0, 0>>
    /\ rx.res = ExceededMaxLen(x) /\ rx.output.data = <<170>>
    /\ rsize = rx

(***************************************************************************)
(* C9: output_u32_as_uleb128(v) returns Ok having written 1 to 5 bytes;   *)
(* the low 7 bits of byte i are bits 7i .. 7i + 6 of v; the high bit is   *)
(* set on every byte but the last; the last byte is zero only for v = 0;  *)
(* the groups put together give v.  0 gives 00, 127 gives 7F, 128 gives   *)
(* 80 01 and 16384 gives 80 80 01.                                         *)
(***************************************************************************)
C9_Uleb128 ==
    ry # NotReturned =>
        LET v == as_u32(x)
            out == ry.output.data
            n == Len(out)
        IN /\ IsOk(ry.res)
           /\ n \in 1..5
           /\ \A i \in 0..(n - 1) :
                 /\ \A j \in 0..6 : (out[i + 1] \div Pow2(j)) % 2 = WordBit(v, 7 * i + j)
                 /\ out[i + 1] >= 128 <=> i < n - 1
           /\ out[n] = 0 => v = <<0, 0, 0, 0>>
           /\ \A j \in 0..31 : GroupBit(out, j) = WordBit(v, j)
           /\ v = <<0, 0, 0, 0>> => out = <<0>>
           /\ v = <<127, 0, 0, 0>> => out = <<127>>
           /\ v = <<128, 0, 0, 0>> => out = <<128, 1>>
           /\ v = <<0, 64, 0, 0>> => out = <<128, 128, 1>>

\* 16384, the last of the worked examples
C9_Witness ==
    /\ ry # NotReturned /\ as_u32(x) = <<0, 64, 0, 0>>
    /\ ry.output.data = <<128, 128, 1>>

(***************************************************************************)
(* C10: serialized_size(x) returns Ok(n) exactly when to_bytes(x) returns *)
(* Ok(bytes) with n the length of bytes, and when one fails the other     *)
(* fails with the same error; and so for the _with_limit forms.          *)
(***************************************************************************)
Agree(bytes, size) ==
    /\ IsOk(size.res) <=> IsOk(bytes.res)
    /\ IsOk(bytes.res) => size.count = Usize(Len(bytes.bytes))
    /\ ~IsOk(bytes.res) => size.res = bytes.res

C10_SizeAgrees ==
    /\ rsize # NotReturned => Agree(rx, rsize)
    /\ rsizel # NotReturned => Agree(rxl, rsizel)

\* a record of three bytes, two named containers deep: both entry points
\* accept it, and both refuse it under a limit of one
C10_Witness ==
    /\ rsizel # NotReturned /\ x.k = "struct" /\ limit = 1
    /\ IsOk(rx.res) /\ Len(rx.bytes) = 3 /\ rsize.count = Usize(3)
    /\ rxl.res = ExceededContainerDepthLimit("B") /\ rsizel.res = rxl.res

IsPrefix(a, b) == Len(a) <= Len(b) /\ SubSeq(b, 1, Len(a)) = a

C12_AppendOnly ==
    [][phase # "idle" =>
          /\ sink'.kind = sink.kind
          /\ IsPrefix(sink.data, sink'.data)
          /\ ~WordGt(sink.count, sink'.count)
          /\ (ev'.kind = "serialize_f32" /\ ev.kind = "serialize_some" /\ Len(frames) = 1) =>
                /\ result'.kind = "NotSupported"
                /\ sink'.kind = "Vec" => sink'.data[Len(sink'.data)] = 1
      ]_vars

\* serialize_into on a Vec holding one byte: Some, then f32
C12_Witness ==
    /\ phase = "done" /\ ev.kind = "serialize_f32" /\ result.kind = "NotSupported"
    /\ sink = VecOf(<<170, 1>>)

(***************************************************************************)
(* C13: serialize_f32, serialize_f64 and serialize_char return            *)
(* NotSupported whatever the budget of the serializer and wherever it     *)
(* stands (at the root, under an option or a wrapper, as an element or a  *)
(* field, as a map key or value); the call writes nothing, the writer of  *)
(* the top-level call is as it was, and the error ends that call.         *)
(***************************************************************************)
C13_Refused ==
    [][(nev' = nev + 1 /\ ev'.kind \in {"serialize_f32", "serialize_f64", "serialize_char"}) =>
          /\ ev'.res.kind = "NotSupported"
          /\ ev'.wrote = <<>>
          /\ ev'.after = ev'.before
          /\ sink' = sink
          /\ phase' = "done" /\ result' = ev'.res
      ]_vars

\* a char as a map key, on a serializer with no budget left
C13_Witness ==
    /\ phase = "done" /\ ev.kind = "serialize_char" /\ ev.before = 0
    /\ frames # <<>> /\ Top.kind = "Map" /\ result.kind = "NotSupported"

(***************************************************************************)
(* C14: what to_bytes returns for a value is the concatenation, in the    *)
(* order the calls are made, of what each call emits: None emits 00;      *)
(* Some emits 01, then the value; a variant emits the ULEB128 of its      *)
(* index, then its payload; a sequence emits the ULEB128 of its length,   *)
(* then its elements; unit, a unit struct, the begin of a tuple, tuple    *)
(* struct or struct, a newtype struct and every end emit nothing; fields  *)
(* and elements follow each other in the order presented, with nothing    *)
(* between them.  Primitives, strings and maps count as given.            *)
(***************************************************************************)
RECURSIVE Emitted(_)
RECURSIVE EmittedAll(_)
EmittedAll(items) ==
    IF items = <<>> THEN <<>> ELSE Emitted(items[1]) \o EmittedAll(Tail(items))

Emitted(v) ==
    CASE v.k = "none" -> <<0>>
      [] v.k = "some" -> <<1>> \o Emitted(v.items[1])
      [] v.k \in {"unit", "unit_struct"} -> <<>>
      [] v.k = "newtype_struct" -> Emitted(v.items[1])
      [] v.k \in {"tuple", "tuple_struct", "struct"} -> EmittedAll(v.items)
      [] v.k = "seq" -> Uleb(Len(v.items)) \o EmittedAll(v.items)
      [] v.k \in {"unit_variant", "newtype_variant", "tuple_variant", "struct_variant"} ->
           Uleb(v.w[1] + 256 * v.w[2]) \o EmittedAll(v.items)
      [] OTHER -> to_bytes(v).bytes

C14_EmissionOrder == (rx # NotReturned /\ IsOk(rx.res)) => rx.bytes = Emitted(x)

\* the third variant of an enum, a tuple variant of a u8 and a bool
C14_Witness ==
    /\ rx # NotReturned /\ x.k = "tuple_variant"
    /\ rx.bytes = <<2, 255, 1>>

(***************************************************************************)
(* C15: on every serializer a call can reach, whatever its budget and     *)
(* its writer, serialize_seq(None) returns MissingLen with the writer and *)
(* the budget as they were, and serialize_seq(Some(n)) does not return    *)
(* MissingLen (Ok for a small n, ExceededMaxLen for 2^31).  A             *)
(* serialize_seq call that returned MissingLen wrote nothing, left the    *)
(* budget and the top-level writer alone and ended the call; one that     *)
(* returned Ok wrote a length.                                             *)
(***************************************************************************)
C15_MissingLen ==
    [][/\ (phase = "running" /\ Top.kind = "Serializer") =>
             /\ LET r == serialize_seq(Self, None_usize)
                IN /\ r.res = MissingLen
                   /\ r.output = CurOut
                   /\ r.max_remaining_depth = Top.max_remaining_depth
             /\ \A n \in {Usize(0), Usize(2), Usize(128)} :
                   IsOk(serialize_seq(Self, n).res)
             /\ serialize_seq(Self, <<0, 0, 0, 128, 0, 0, 0, 0>>).res.kind = "ExceededMaxLen"
       /\ (nev' = nev + 1 /\ ev'.kind = "serialize_seq") =>
             /\ ev'.res.kind = "MissingLen" =>
                   /\ ev'.wrote = <<>> /\ ev'.after = ev'.before
                   /\ sink' = sink
                   /\ phase' = "done" /\ result' = MissingLen
             /\ IsOk(ev'.res) => Top'.kind = "Seq"
      ]_vars

\* a sequence of unknown length as a field of a record, with no budget left
C15_Witness ==
    /\ phase = "done" /\ ev.kind = "serialize_seq" /\ result = MissingLen
    /\ ev.before = 0 /\ frames # <<>> /\ Top.kind = "Struct"

(***************************************************************************)
(* C16: end does not fail because keys repeat: with no key pending it     *)
(* returns Ok.  What it writes is ULEB128(c), c the number of different   *)
(* encoded keys presented, then one pair per key in strictly ascending    *)
(* key order, the pair being the first one presented with that key.       *)
(***************************************************************************)
FirstWith(calls, key) ==
    calls[CHOOSE i \in 1..Len(calls) :
             calls[i][1] = key /\ \A j \in 1..(i - 1) : calls[j][1] # key]

C16_FirstWins ==
    ev.kind = "map_end" =>
        /\ ev.res.kind \in {"Ok", "ExpectedMapValue"}
        /\ IsOk(ev.res) =>
              LET c == Cardinality(KeysOf(ev.calls))
              IN \E p \in [1..c -> Range(ev.calls)] :
                    /\ \A i \in 1..(c - 1) : LexLess(p[i][1], p[i + 1][1])
                    /\ \A i \in 1..c : p[i] = FirstWith(ev.calls, p[i][1])
                    /\ ev.wrote = Uleb(c) \o FlattenPairs(p)

\* three pairs presented, the first and the third with one key and two values
C16_Witness ==
    /\ ev.kind = "map_end" /\ IsOk(ev.res) /\ Len(ev.calls) = 3
    /\ ev.calls[1][1] = ev.calls[3][1] /\ ev.calls[1][2] # ev.calls[3][2]
    /\ ev.calls[2][1] # ev.calls[1][1]

(***************************************************************************)
(* C17: while a map is open, the writer its Serializer borrows (the       *)
(* top-level writer, or the buffer of the serialize_key / serialize_value *)
(* call the map is encoded in) is changed by no call but the map's own    *)
(* end returning Ok: not by its key and value calls, not by any call      *)
(* inside them, not by a call that fails.  A map at the root so leaves    *)
(* the top-level writer alone until its end succeeds, which appends what  *)
(* end wrote.                                                              *)
(***************************************************************************)
\* the number of serialize_key / serialize_value calls in progress around frame i
BuffersAt(i) == Cardinality({j \in 1..i : frames[j].call \in {"key", "value"}})

C17_MapWritesAtEnd ==
    [][nev' = nev + 1 =>
          \A i \in 1..Len(frames) :
              frames[i].kind = "Map" =>
                  IF i = Len(frames) /\ ev'.kind = "map_end" /\ IsOk(ev'.res)
                  THEN /\ ev'.wrote # <<>>
                       /\ BuffersAt(i) = 0 => sink'.data = sink.data \o ev'.wrote
                  ELSE IF BuffersAt(i) = 0
                       THEN sink' = sink
                       ELSE Len(scratch') >= BuffersAt(i) =>
                               scratch'[BuffersAt(i)] = scratch[BuffersAt(i)]
      ]_vars

\* a map holding one entry is handed a value with no key pending
C17_Witness ==
    /\ phase = "done" /\ ev.kind = "serialize_value" /\ result = ExpectedMapKey
    /\ Len(frames) = 1 /\ Len(Top.entries) = 1 /\ sink = Vec_new

(***************************************************************************)
(* C18: a call that enters a named container, made on a serializer whose  *)
(* budget is zero, returns ExceededContainerDepthLimit with its name and  *)
(* has written nothing: the four variant calls have not written their     *)
(* index, the writer of the top-level call is as it was.  With budget     *)
(* left the call returns Ok; on a Vec a variant call has then written its *)
(* index and the other named calls nothing.                                *)
(***************************************************************************)
VariantCalls ==
    {"serialize_unit_variant", "serialize_newtype_variant", "serialize_tuple_variant",
     "serialize_struct_variant"}

C18_CheckBeforeWrite ==
    [][(nev' = nev + 1 /\ ev'.kind \in NamedCalls) =>
          IF ev'.before = 0
          THEN /\ ev'.res = ExceededContainerDepthLimit(ev'.name)
               /\ ev'.wrote = <<>>
               /\ sink' = sink
               /\ phase' = "done" /\ result' = ev'.res
          ELSE /\ IsOk(ev'.res)
               /\ CurOut.kind = "Vec" => (ev'.kind \in VariantCalls <=> ev'.wrote # <<>>)
      ]_vars

\* a newtype variant refused under limit 0, the Vec still holding only its byte
C18_Witness ==
    /\ phase = "done" /\ ev.kind = "serialize_newtype_variant" /\ ev.before = 0
    /\ result = ExceededContainerDepthLimit(ev.name) /\ sink = VecOf(<<170>>)

(***************************************************************************)
(* C19: a serialize_key or serialize_value call that fails leaves the     *)
(* entries as they were.  serialize_value takes the pending key before    *)
(* it encodes the value.  When the key or the value handed over fails to  *)
(* encode, the map has no key pending and its entries are those it had:   *)
(* it would refuse a value with ExpectedMapKey and accept a key.          *)
(***************************************************************************)
C19_FailedCalls ==
    [][nev' = nev + 1 =>
          /\ (ev'.kind \in {"serialize_key", "serialize_value"} /\ ~IsOk(ev'.res)) =>
                frames' = frames
          /\ (ev'.kind = "serialize_value" /\ IsOk(ev'.res)) =>
                /\ ~frames'[Len(frames)].next_key.some
                /\ frames'[Len(frames)].entries = Top.entries
                /\ Top'.key = Top.next_key.v
          /\ (Top.call \in {"key", "value"} /\ Len(frames') < Len(frames) /\ phase' = "done") =>
                /\ ~IsOk(result')
                /\ Top'.entries = frames[Len(frames) - 1].entries
                /\ ~Top'.next_key.some
                /\ serialize_value_check(MapOf(Top', CurOut')) = ExpectedMapKey
                /\ IsOk(serialize_key_check(MapOf(Top', CurOut')))
      ]_vars

\* a map with one entry and a second key pending is handed an f32 as the value
C19_Witness ==
    /\ phase = "done" /\ ev.kind = "serialize_f32" /\ frames # <<>>
    /\ Top.kind = "Map" /\ Len(Top.entries) = 1 /\ ~Top.next_key.some
    /\ Top.gkey # <<>> /\ Top.gkey # Top.entries[1][1]

====
